---- MODULE Spec2Model ----
(***************************************************************************)
(* Model of the BME280 register-level driver (src/src/bme280_driver.cpp,   *)
(* src/src/bme280_driver.h).  The driver talks to the sensor through three *)
(* I2C primitives (readRegister, readRegisters, writeRegister) and turns   *)
(* raw ADC samples into readings with the fixed-point compensation         *)
(* formulas.  The C++ arithmetic is 32 and 64 bits wide; it is modelled    *)
(* here on two's-complement words held as tuples of eight base-256 limbs,  *)
(* so that every shift, product and division is computed with the width   *)
(* the code uses.                                                          *)
(***************************************************************************)
EXTENDS Integers, Sequences, FiniteSets, TLC

(***************************************************************************)
(* Fixed-width two's-complement arithmetic.  A word is a tuple of eight    *)
(* limbs in 0..255, limb 0 the least significant byte (int64_t).  int32_t  *)
(* values are kept sign-extended in a word.                                *)
(***************************************************************************)
\* (int64_t) of a value that fits a 32-bit int: sign extension
I64(n) ==
    LET s == IF n < 0 THEN 255 ELSE 0
    IN  <<n % 256, (n \div 256) % 256, (n \div 65536) % 256,
          (n \div 16777216) % 256, s, s, s, s>>

IsNeg64(a) == a[8] >= 128

\* a + b modulo 2^64, carries rippling from limb to limb
Add64(a, b) ==
    LET s1 == a[1] + b[1]
        s2 == a[2] + b[2] + (s1 \div 256)
        s3 == a[3] + b[3] + (s2 \div 256)
        s4 == a[4] + b[4] + (s3 \div 256)
        s5 == a[5] + b[5] + (s4 \div 256)
        s6 == a[6] + b[6] + (s5 \div 256)
        s7 == a[7] + b[7] + (s6 \div 256)
        s8 == a[8] + b[8] + (s7 \div 256)
    IN  <<s1 % 256, s2 % 256, s3 % 256, s4 % 256, s5 % 256, s6 % 256, s7 % 256, s8 % 256>>

\* a - b modulo 2^64, borrows rippling from limb to limb
Sub64(a, b) ==
    LET d1 == a[1] - b[1]
        d2 == a[2] - b[2] + (d1 \div 256)
        d3 == a[3] - b[3] + (d2 \div 256)
        d4 == a[4] - b[4] + (d3 \div 256)
        d5 == a[5] - b[5] + (d4 \div 256)
        d6 == a[6] - b[6] + (d5 \div 256)
        d7 == a[7] - b[7] + (d6 \div 256)
        d8 == a[8] - b[8] + (d7 \div 256)
    IN  <<d1 % 256, d2 % 256, d3 % 256, d4 % 256, d5 % 256, d6 % 256, d7 % 256, d8 % 256>>

Neg64(a) == Sub64(<<0, 0, 0, 0, 0, 0, 0, 0>>, a)

\* a * b modulo 2^64: column sums of the limb products with carries
Mul64(a, b) ==
    LET t1 == a[1] * b[1]
        t2 == a[1] * b[2] + a[2] * b[1] + (t1 \div 256)
        t3 == a[1] * b[3] + a[2] * b[2] + a[3] * b[1] + (t2 \div 256)
        t4 == a[1] * b[4] + a[2] * b[3] + a[3] * b[2] + a[4] * b[1] + (t3 \div 256)
        t5 == a[1] * b[5] + a[2] * b[4] + a[3] * b[3] + a[4] * b[2] + a[5] * b[1] + (t4 \div 256)
        t6 == a[1] * b[6] + a[2] * b[5] + a[3] * b[4] + a[4] * b[3] + a[5] * b[2] + a[6] * b[1] + (t5 \div 256)
        t7 == a[1] * b[7] + a[2] * b[6] + a[3] * b[5] + a[4] * b[4] + a[5] * b[3] + a[6] * b[2] + a[7] * b[1] + (t6 \div 256)
        t8 == a[1] * b[8] + a[2] * b[7] + a[3] * b[6] + a[4] * b[5] + a[5] * b[4] + a[6] * b[3] + a[7] * b[2] + a[8] * b[1] + (t7 \div 256)
    IN  <<t1 % 256, t2 % 256, t3 % 256, t4 % 256, t5 % 256, t6 % 256, t7 % 256, t8 % 256>>

\* a << n, 0 <= n < 64
Shl64(a, n) ==
    LET q == n \div 8
        m == 2^(n % 8)
        limb(k) == IF k >= 0 THEN a[k+1] ELSE 0
        f(i) == ((limb(i-q) * m) % 256) + ((limb(i-q-1) * m) \div 256)
    IN  <<f(0), f(1), f(2), f(3), f(4), f(5), f(6), f(7)>>

\* a >> n on a signed operand (arithmetic shift), 0 <= n < 64
Sar64(a, n) ==
    LET q == n \div 8
        r == n % 8
        s == IF IsNeg64(a) THEN 255 ELSE 0
        ext(k) == IF k <= 7 THEN a[k+1] ELSE s
        f(i) == (ext(i+q) \div (2^r)) + (ext(i+q+1) % (2^r)) * (2^(8-r))
    IN  <<f(0), f(1), f(2), f(3), f(4), f(5), f(6), f(7)>>

\* unsigned comparison a < b, most significant limb first
ULt64(a, b) ==
    IF a[8] # b[8] THEN a[8] < b[8]
    ELSE IF a[7] # b[7] THEN a[7] < b[7]
    ELSE IF a[6] # b[6] THEN a[6] < b[6]
    ELSE IF a[5] # b[5] THEN a[5] < b[5]
    ELSE IF a[4] # b[4] THEN a[4] < b[4]
    ELSE IF a[3] # b[3] THEN a[3] < b[3]
    ELSE IF a[2] # b[2] THEN a[2] < b[2]
    ELSE IF a[1] # b[1] THEN a[1] < b[1]
    ELSE FALSE

\* a >> n on an unsigned operand (logical shift), 0 <= n < 64
Lsr64(a, n) ==
    LET q == n \div 8
        r == n % 8
        ext(k) == IF k <= 7 THEN a[k+1] ELSE 0
        f(i) == (ext(i+q) \div (2^r)) + (ext(i+q+1) % (2^r)) * (2^(8-r))
    IN  <<f(0), f(1), f(2), f(3), f(4), f(5), f(6), f(7)>>

\* number of significant bits of an unsigned word
BitLen64(a) ==
    LET top == IF a[8] # 0 THEN 8 ELSE IF a[7] # 0 THEN 7
               ELSE IF a[6] # 0 THEN 6 ELSE IF a[5] # 0 THEN 5
               ELSE IF a[4] # 0 THEN 4 ELSE IF a[3] # 0 THEN 3
               ELSE IF a[2] # 0 THEN 2 ELSE 1
        x   == a[top]
        len == IF x >= 128 THEN 8 ELSE IF x >= 64 THEN 7
               ELSE IF x >= 32 THEN 6 ELSE IF x >= 16 THEN 5
               ELSE IF x >= 8 THEN 4 ELSE IF x >= 4 THEN 3
               ELSE IF x >= 2 THEN 2 ELSE x
    IN  8 * (top - 1) + len

\* the value of an unsigned word below 2^31
ToNat(a) == a[1] + a[2] * 256 + a[3] * 65536 + a[4] * 16777216

\* one round of the long division of an unsigned word by d # 0: s is the
\* pair <<remainder, quotient so far>>.  The round takes from the remainder
\* a multiple step * d of the divisor, step being a lower estimate of
\* remainder / d computed from the leading 30 bits of the remainder and the
\* leading 15 bits of d (so that step * d never exceeds the remainder)
UDivRound(s, d) ==
    LET take(step) == <<Sub64(s[1], Mul64(step, d)), Add64(s[2], step)>>
        scale(e, sh) == take(IF e = 0 THEN I64(1) ELSE Shl64(I64(e), sh))
        estimate(sd, sr) ==
            scale(ToNat(Lsr64(s[1], sr))
                      \div (ToNat(Lsr64(d, sd)) + (IF sd > 0 THEN 1 ELSE 0)),
                  sr - sd)
        shifts(sd, lr) == estimate(sd, IF lr - 30 > sd THEN lr - 30 ELSE sd)
        lengths(ld, lr) == shifts(IF ld > 15 THEN ld - 15 ELSE 0, lr)
    IN  IF ULt64(s[1], d) THEN s ELSE lengths(BitLen64(d), BitLen64(s[1]))

\* unsigned quotient n / d, d # 0.  A round leaves a remainder at least 13
\* bits shorter, or a quotient of at most 2 to go: eight rounds are enough
\* for 64 bits
UDiv64(n, d) ==
    UDivRound(UDivRound(UDivRound(UDivRound(
    UDivRound(UDivRound(UDivRound(UDivRound(
        <<n, I64(0)>>, d), d), d), d), d), d), d), d)[2]

\* int64_t a / b: quotient truncated toward zero.  b = 0 is undefined
\* behaviour in C++; the all-ones word stands for it here
Div64(a, b) ==
    LET sign(uq) == IF IsNeg64(a) # IsNeg64(b) THEN Neg64(uq) ELSE uq
    IN  IF b = I64(0) THEN I64(-1)
        ELSE sign(UDiv64(IF IsNeg64(a) THEN Neg64(a) ELSE a,
                         IF IsNeg64(b) THEN Neg64(b) ELSE b))

\* (int32_t) of a word: keep the low 32 bits, sign-extended
Wrap32(a) ==
    LET s == IF a[4] >= 128 THEN 255 ELSE 0
    IN  <<a[1], a[2], a[3], a[4], s, s, s, s>>

\* the value of a sign-extended int32_t word
ToInt32(a) ==
    LET low == a[1] + a[2] * 256 + a[3] * 65536 + (a[4] % 128) * 16777216
    IN  IF a[4] >= 128 THEN (low - 2147483647) - 1 ELSE low

Add32(a, b) == Wrap32(Add64(a, b))
Sub32(a, b) == Wrap32(Sub64(a, b))
Mul32(a, b) == Wrap32(Mul64(a, b))
Shl32(a, n) == Wrap32(Shl64(a, n))
Sar32(a, n) == Sar64(Wrap32(a), n)


(***************************************************************************)
(* Register map and configuration values (bme280_driver.h).                *)
(***************************************************************************)
BME280_ADDRESS_PRIMARY   == 118    \* 0x76
BME280_ADDRESS_SECONDARY == 119    \* 0x77
BME280_REG_ID        == 208        \* 0xD0
BME280_REG_RESET     == 224        \* 0xE0
BME280_REG_STATUS    == 243        \* 0xF3
BME280_REG_CTRL_MEAS == 244        \* 0xF4
BME280_REG_CONFIG    == 245        \* 0xF5
BME280_REG_CTRL_HUM  == 242        \* 0xF2
BME280_REG_PRESS_MSB == 247        \* 0xF7
BME280_REG_TEMP_MSB  == 250        \* 0xFA
BME280_REG_HUM_MSB   == 253        \* 0xFD
BME280_REG_DIG_T1    == 136        \* 0x88
BME280_REG_DIG_H1    == 161        \* 0xA1
BME280_REG_DIG_H2    == 225        \* 0xE1
BME280_TEMP_OSR      == 1
BME280_PRES_OSR      == 1
BME280_HUM_OSR       == 1
BME280_MODE          == 3
\* the identity byte begin() expects
BME280_CHIP_ID       == 96         \* 0x60
\* the soft-reset command byte
BME280_RESET_CMD     == 182        \* 0xB6

(***************************************************************************)
(* Conversions of the C++ integer types.                                   *)
(***************************************************************************)
\* (int16_t) of a 16-bit pattern
AsInt16(v) == IF v % 65536 >= 32768 THEN (v % 65536) - 65536 ELSE v % 65536
\* (uint16_t) of a 16-bit pattern
AsUint16(v) == v % 65536
\* a byte stored without the (int8_t) cast
AsInt8Unsigned(b) == b % 256

\* (int8_t) of a byte
AsInt8(b) == IF b % 256 >= 128 THEN (b % 256) - 256 ELSE b % 256

(***************************************************************************)
(* Compensation formulas.  c is calibData, tf is t_fine.                   *)
(***************************************************************************)
\* var1 shifted by 10 instead of 11
TempVar1Shift10(c, adcTemp) ==
    Sar32(Mul32(Sub32(Sar32(I64(adcTemp), 3), Shl32(I64(c.dig_T1), 1)),
                I64(c.dig_T2)), 10)

\* var1 of compensateTemperature
TempVar1(c, adcTemp) ==
    Sar32(Mul32(Sub32(Sar32(I64(adcTemp), 3), Shl32(I64(c.dig_T1), 1)),
                I64(c.dig_T2)), 11)

\* var2 of compensateTemperature
TempVar2(c, adcTemp) ==
    LET d == Sub32(Sar32(I64(adcTemp), 4), I64(c.dig_T1))
    IN  Sar32(Mul32(Sar32(Mul32(d, d), 12), I64(c.dig_T3)), 14)

\* temperature = (t_fine * 5 + 128) >> 8
TempFromFine(tf) ==
    ToInt32(Sar32(Add32(Mul32(I64(tf), I64(5)), I64(128)), 8))

\* compensateTemperature: the new t_fine and the returned value (0.01 degC)
compensateTemperature(c, adcTemp) ==
    LET tf == ToInt32(Add32(TempVar1(c, adcTemp), TempVar2(c, adcTemp)))
    IN  [t_fine |-> tf, temperature |-> TempFromFine(tf)]

\* var1 of compensatePressure as tested by "if (var1 == 0)"
PressureDivisor(c, tf) ==
    LET v    == Sub64(I64(tf), I64(128000))
        var1 == Add64(Sar64(Mul64(Mul64(v, v), I64(c.dig_P3)), 8),
                      Shl64(Mul64(v, I64(c.dig_P2)), 12))
    IN  Sar64(Mul64(Add64(Shl64(I64(1), 47), var1), I64(c.dig_P1)), 33)

\* var2 of compensatePressure before the division
PressureVar2(c, tf) ==
    LET v  == Sub64(I64(tf), I64(128000))
        a  == Mul64(Mul64(v, v), I64(c.dig_P6))
        b  == Add64(a, Shl64(Mul64(v, I64(c.dig_P5)), 17))
    IN  Add64(b, Shl64(I64(c.dig_P4), 35))

\* a compensatePressure without the guard
PressureDivisorUnchecked(var1) == FALSE

\* the test "var1 == 0" that guards the division
PressureDivisorIsZero(var1) == var1 = I64(0)

\* (uint32_t) of a word
AsUint32(a) == <<a[1], a[2], a[3], a[4], 0, 0, 0, 0>>

\* the value compensatePressure computes when the divisor is not zero
PressureQuotient(c, adcPres, var1, var2) ==
    LET tail(p) ==
            Add64(Sar64(Add64(Add64(p,
                      Sar64(Mul64(Mul64(I64(c.dig_P9), Sar64(p, 13)),
                                  Sar64(p, 13)), 25)),
                      Sar64(Mul64(I64(c.dig_P8), p), 19)), 8),
                  Shl64(I64(c.dig_P7), 4))
    IN  tail(Div64(Mul64(Sub64(Shl64(Sub64(I64(1048576), I64(adcPres)), 31),
                               var2), I64(3125)), var1))

\* compensatePressure: the uint32_t it returns, as a word
compensatePressure(c, tf, adcPres) ==
    LET var1 == PressureDivisor(c, tf)
    IN  IF PressureDivisorIsZero(var1) THEN I64(0)
        ELSE AsUint32(PressureQuotient(c, adcPres, var1, PressureVar2(c, tf)))

\* v_x1_u32r of compensateHumidity before the two clamping statements
HumidityUnclamped(c, tf, adcHum) ==
    LET v  == Sub32(I64(tf), I64(76800))
        a  == Sar32(Add32(Sub32(Sub32(Shl32(I64(adcHum), 14),
                                      Shl32(I64(c.dig_H4), 20)),
                                Mul32(I64(c.dig_H5), v)),
                          I64(16384)), 15)
        b1 == Sar32(Mul32(v, I64(c.dig_H6)), 10)
        b2 == Add32(Sar32(Mul32(v, I64(c.dig_H3)), 11), I64(32768))
        b3 == Add32(Sar32(Mul32(b1, b2), 10), I64(2097152))
        b  == Sar32(Add32(Mul32(b3, I64(c.dig_H2)), I64(8192)), 14)
        x  == Mul32(a, b)
        s  == Sar32(x, 15)
    IN  ToInt32(Sub32(x, Sar32(Mul32(Sar32(Mul32(s, s), 7), I64(c.dig_H1)), 4)))

\* a compensateHumidity without the upper clamp
HumidityClampLowOnly(v) == IF v < 0 THEN 0 ELSE v

\* the two clamping statements of compensateHumidity
HumidityClamp(v) ==
    LET lo == IF v < 0 THEN 0 ELSE v
    IN  IF lo > 419430400 THEN 419430400 ELSE lo

\* compensateHumidity: the uint32_t it returns (Q22.10 percent)
compensateHumidity(c, tf, adcHum) ==
    HumidityClamp(HumidityUnclamped(c, tf, adcHum)) \div 4096

(***************************************************************************)
(* The sensor on the other end of the bus.  Its non-volatile calibration   *)
(* memory holds the coefficients in the register layout of the header:     *)
(* 16-bit words little-endian from 0x88, dig_H1 at 0xA1, and from 0xE1     *)
(* dig_H2, dig_H3, the nibble-packed dig_H4/dig_H5 and dig_H6.             *)
(***************************************************************************)
\* factory coefficients of the sensors considered
ReferenceCoefficients ==
    [dig_T1 |-> 27504, dig_T2 |-> 26435, dig_T3 |-> -1000,
     dig_P1 |-> 36477, dig_P2 |-> -10685, dig_P3 |-> 3024, dig_P4 |-> 2855,
     dig_P5 |-> 140, dig_P6 |-> -7, dig_P7 |-> 15500, dig_P8 |-> -14600,
     dig_P9 |-> 6000,
     dig_H1 |-> 75, dig_H2 |-> 367, dig_H3 |-> 0, dig_H4 |-> 301,
     dig_H5 |-> 50, dig_H6 |-> 30]

ZeroCoefficients ==
    [dig_T1 |-> 0, dig_T2 |-> 0, dig_T3 |-> 0,
     dig_P1 |-> 0, dig_P2 |-> 0, dig_P3 |-> 0, dig_P4 |-> 0,
     dig_P5 |-> 0, dig_P6 |-> 0, dig_P7 |-> 0, dig_P8 |-> 0, dig_P9 |-> 0,
     dig_H1 |-> 0, dig_H2 |-> 0, dig_H3 |-> 0, dig_H4 |-> 0,
     dig_H5 |-> 0, dig_H6 |-> 0]

\* calibration memories: the reference part, and one whose dig_P1 is zero
Coefficients(profile) ==
    CASE profile = "reference" -> ReferenceCoefficients
      [] profile = "p1zero"    -> [ReferenceCoefficients EXCEPT !.dig_P1 = 0]

\* a 16-bit coefficient as stored: least significant byte first
LE16(v) == <<v % 256, (v \div 256) % 256>>

\* registers 0x88..0x9F
NvmBlockTP(k) ==
    LE16(k.dig_T1) \o LE16(k.dig_T2) \o LE16(k.dig_T3) \o
    LE16(k.dig_P1) \o LE16(k.dig_P2) \o LE16(k.dig_P3) \o LE16(k.dig_P4) \o
    LE16(k.dig_P5) \o LE16(k.dig_P6) \o LE16(k.dig_P7) \o LE16(k.dig_P8) \o
    LE16(k.dig_P9)

\* registers 0xE1..0xE7
NvmBlockH(k) ==
    LE16(k.dig_H2) \o
    <<k.dig_H3 % 256,
      (k.dig_H4 \div 16) % 256,
      (k.dig_H4 % 16) + 16 * (k.dig_H5 % 16),
      (k.dig_H5 \div 16) % 256,
      k.dig_H6 % 256>>

\* the set-ups considered: driver address, identity byte (0x60 a BME280,
\* 0x58 the BMP280 look-alike), calibration memory of the device, and the
\* storage the driver object lives in (static storage is zeroed before the
\* constructor runs, other storage holds whatever bytes were there)
Setups ==
    {[addr |-> 118, chipId |-> 96, nvm |-> "reference", static |-> TRUE],
     [addr |-> 119, chipId |-> 96, nvm |-> "p1zero", static |-> FALSE],
     [addr |-> 118, chipId |-> 88, nvm |-> "reference", static |-> FALSE]}

\* data-register contents the sensor may present (msb, lsb, xlsb):
\* raw temperature 519888 and 440064, raw pressure 415148,
\* raw humidity 30000 and 0
RawTemperatureBytes == {<<126, 237, 0>>, <<107, 112, 0>>}
RawPressureBytes    == {<<101, 90, 192>>}
RawHumidityBytes    == {<<117, 48>>, <<0, 0>>}

\* the outcomes of a burst read of n bytes: the device's bytes, or a failed
\* transfer, which leaves the receive buffer empty so that every
\* Wire.read() returns -1, stored as 0xFF in a uint8_t
Transfers(raws, n) ==
    {[ok |-> TRUE, bytes |-> r] : r \in raws}
        \cup {[ok |-> FALSE, bytes |-> [i \in 1..n |-> 255]]}

(***************************************************************************)
(* Driver state, bus history and device state.                             *)
(***************************************************************************)
VARIABLES
    deviceAddress,    \* BME280_Driver::deviceAddress
    calibData,        \* BME280_Driver::calibData
    t_fine,           \* BME280_Driver::t_fine
    pc,               \* "idle", or inside begin()'s wait loop: "begin_poll"
                      \* before a status read, "begin_delay" in delay(10)
    busLog,           \* bus transactions of the current / last public call
    result,           \* what the last public call returned: a float is
                      \* num / den; adc is the sample it was computed from,
                      \* firstPass tells that compensateTemperature had
                      \* not run when the call was made
    tempCompensated,  \* compensateTemperature has run since construction
    devChipId,        \* identity register of the device
    devNvm,           \* calibration memory of the device
    devCopying        \* status bit 0: NVM copy in progress

\* the application of main.cpp: its globals, its position, and the MQTT
\* traffic of the current pass of loop()
VARIABLES
    appFn,            \* the function the processor runs: "setup" or "loop"
    appPc,            \* the statement of it that runs next
    beginResult,      \* what bme280.begin() returned in setupBME280(),
                      \* "none" before the call has returned
    sensorData,       \* the global sensorData, each float as num / den
    ledState,         \* the global ledState
    ledPin,           \* output level of LED_PIN
    displayCleared,   \* the global displayCleared
    mqttConnected,    \* the client's link to the broker is up
    inbox,            \* payload mqttClient.loop() is handing to the callback
    published         \* messages handed to mqttClient.publish() during
                      \* the current pass of loop()

appVars == <<appFn, appPc, beginResult, sensorData, ledState, ledPin,
             displayCleared, mqttConnected, inbox, published>>

vars == <<deviceAddress, calibData, t_fine, pc, busLog, result,
          tempCompensated, devChipId, devNvm, devCopying,
          appFn, appPc, beginResult, sensorData, ledState, ledPin,
          displayCleared, mqttConnected, inbox, published>>

\* no payload is being delivered
NoMessage == <<-1>>

\* the application's globals before setup() runs: statics are zeroed, the
\* pin is not yet driven
AppGlobals ==
    /\ appFn = "setup"
    /\ appPc = "start"
    /\ beginResult = "none"
    /\ sensorData = [temperature |-> [num |-> 0, den |-> 1],
                     humidity    |-> [num |-> 0, den |-> 1],
                     pressure    |-> [num |-> 0, den |-> 1]]
    /\ ledState = FALSE
    /\ ledPin = "floating"
    /\ displayCleared = FALSE
    /\ mqttConnected = FALSE
    /\ inbox = NoMessage
    /\ published = <<>>

\* status polls of the wait loop that found the device busy are recorded in
\* busLog up to this number; the loop itself is not limited
MaxBusyPolls == 1

\* a transaction sent to the primary address whatever the driver was
\* constructed with
TxnPrimaryOnly(kind, reg, arg, ok) ==
    [addr |-> BME280_ADDRESS_PRIMARY, kind |-> kind, reg |-> reg, arg |-> arg,
     ok |-> ok, data |-> <<>>]

\* one bus transaction: kind is "read1" (readRegister), "readN"
\* (readRegisters) or "write" (writeRegister); arg is the byte count of a
\* read or the value of a write; ok tells whether the transfer succeeded;
\* data are the bytes a read handed to the driver
Txn(kind, reg, arg, ok) ==
    [addr |-> deviceAddress, kind |-> kind, reg |-> reg, arg |-> arg,
     ok |-> ok, data |-> <<>>]

\* a read transaction that handed the driver these bytes
RxTxn(kind, reg, ok, bytes) ==
    [Txn(kind, reg, Len(bytes), ok) EXCEPT !.data = bytes]

\* bytes delivered by a read, 0xFF each when the transfer failed
BusRead(ok, bytes) == IF ok THEN bytes ELSE [i \in 1..Len(bytes) |-> 255]

\* readRegister: the byte returned
readRegister(ok, byte) == BusRead(ok, <<byte>>)[1]

\* content of the status register: bit 0 while the calibration image is
\* copied, bit 3 (measuring) while a conversion runs
StatusByte(measuring) ==
    (IF devCopying THEN 1 ELSE 0) + (IF measuring THEN 8 ELSE 0)

\* what bit 3 may be when the status register is read: no conversion runs
\* while the device copies its calibration image after a reset
MeasuringStates == IF devCopying THEN {FALSE} ELSE BOOLEAN

\* calibData as decoded by readCalibrationData from the three reads
DecodeCalibration(buffer, h1, hbuf) ==
    [dig_T1 |-> AsUint16(buffer[2] * 256 + buffer[1]),
     dig_T2 |-> AsInt16(buffer[4] * 256 + buffer[3]),
     dig_T3 |-> AsInt16(buffer[6] * 256 + buffer[5]),
     dig_P1 |-> AsUint16(buffer[8] * 256 + buffer[7]),
     dig_P2 |-> AsInt16(buffer[10] * 256 + buffer[9]),
     dig_P3 |-> AsInt16(buffer[12] * 256 + buffer[11]),
     dig_P4 |-> AsInt16(buffer[14] * 256 + buffer[13]),
     dig_P5 |-> AsInt16(buffer[16] * 256 + buffer[15]),
     dig_P6 |-> AsInt16(buffer[18] * 256 + buffer[17]),
     dig_P7 |-> AsInt16(buffer[20] * 256 + buffer[19]),
     dig_P8 |-> AsInt16(buffer[22] * 256 + buffer[21]),
     dig_P9 |-> AsInt16(buffer[24] * 256 + buffer[23]),
     dig_H1 |-> h1,
     dig_H2 |-> AsInt16(hbuf[2] * 256 + hbuf[1]),
     dig_H3 |-> hbuf[3],
     dig_H4 |-> AsInt16(hbuf[4] * 16 + (hbuf[5] % 16)),
     dig_H5 |-> AsInt16(hbuf[6] * 16 + (hbuf[5] \div 16)),
     dig_H6 |-> AsInt8(hbuf[7])]

\* readCalibrationData: the new calibData; okc[i] is the outcome of read i
readCalibrationData(okc) ==
    DecodeCalibration(BusRead(okc[1], NvmBlockTP(Coefficients(devNvm))),
                      readRegister(okc[2], Coefficients(devNvm).dig_H1),
                      BusRead(okc[3], NvmBlockH(Coefficients(devNvm))))

\* the bus transactions of readCalibrationData, in program order
CalibrationReads(okc) ==
    <<RxTxn("readN", BME280_REG_DIG_T1, okc[1],
            BusRead(okc[1], NvmBlockTP(Coefficients(devNvm)))),
      RxTxn("read1", BME280_REG_DIG_H1, okc[2],
            <<readRegister(okc[2], Coefficients(devNvm).dig_H1)>>),
      RxTxn("readN", BME280_REG_DIG_H2, okc[3],
            BusRead(okc[3], NvmBlockH(Coefficients(devNvm))))>>

\* a control byte with the temperature field shifted by 4
CtrlMeasByteShift4 ==
    (BME280_TEMP_OSR * 16 + BME280_PRES_OSR * 4 + BME280_MODE) % 256

\* uint8_t config = (TEMP_OSR << 5) | (PRES_OSR << 2) | MODE
CtrlMeasByte ==
    (BME280_TEMP_OSR * 32 + BME280_PRES_OSR * 4 + BME280_MODE) % 256

\* a begin() that writes measurement control before humidity control
ConfigWritesMeasFirst(okw) ==
    <<Txn("write", BME280_REG_CTRL_MEAS, CtrlMeasByte, okw[2]),
      Txn("write", BME280_REG_CTRL_HUM, BME280_HUM_OSR, okw[1]),
      Txn("write", BME280_REG_CONFIG, 0, okw[3])>>

\* a begin() that returns without the config write
ConfigWritesNoConfig(okw) ==
    <<Txn("write", BME280_REG_CTRL_HUM, BME280_HUM_OSR, okw[1]),
      Txn("write", BME280_REG_CTRL_MEAS, CtrlMeasByte, okw[2])>>

\* the three configuration writes of begin(), in program order
ConfigWrites(okw) ==
    <<Txn("write", BME280_REG_CTRL_HUM, BME280_HUM_OSR, okw[1]),
      Txn("write", BME280_REG_CTRL_MEAS, CtrlMeasByte, okw[2]),
      Txn("write", BME280_REG_CONFIG, 0, okw[3])>>

\* a begin() that only rejects a silent bus
ChipIdMismatchZeroOnly(chipId) == chipId = 0

\* begin(): "if (chipId != 0x60) return false"
ChipIdMismatch(chipId) == chipId # BME280_CHIP_ID

\* a begin() that does not wait for the copy
CopyInProgressNever(status) == FALSE

\* begin(): the loop condition "readRegister(BME280_REG_STATUS) & 0x01"
CopyInProgress(status) == status % 2 = 1

\* a read that never triggers the temperature pass
NeedsTemperatureNever(tf) == FALSE

\* readPressure()/readHumidity(): "if (t_fine == 0) readTemperature()"
NeedsTemperature(tf) == tf = 0

\* the 20-bit sample (b0 << 12) | (b1 << 4) | (b2 >> 4)
Adc20(buffer) == buffer[1] * 4096 + buffer[2] * 16 + (buffer[3] \div 16)

\* the 16-bit sample (b0 << 8) | b1
Adc16(buffer) == buffer[1] * 256 + buffer[2]

\* outcomes of three consecutive transfers: all succeed or the bus is down
Outcomes3 == {<<TRUE, TRUE, TRUE>>, <<FALSE, FALSE, FALSE>>}

NoResult == [op |-> "none"]

Init ==
    /\ \E s \in Setups :
          /\ deviceAddress = s.addr
          /\ devChipId = s.chipId
          /\ devNvm = s.nvm
          \* the constructor does not initialise calibData
          /\ calibData = IF s.static THEN ZeroCoefficients
                         ELSE DecodeCalibration([i \in 1..24 |-> 255], 255,
                                                [i \in 1..7 |-> 255])
    /\ t_fine = 0
    /\ pc = "idle"
    /\ busLog = <<>>
    /\ result = NoResult
    /\ tempCompensated = FALSE
    /\ devCopying = FALSE
    /\ AppGlobals

\* begin() up to its wait loop: identity check, soft reset, delay
Begin ==
    /\ pc = "idle"
    /\ \E okId \in BOOLEAN, okReset \in BOOLEAN :
         LET chipId == readRegister(okId, devChipId)
             idRead == RxTxn("read1", BME280_REG_ID, okId, <<chipId>>)
         IN  IF ChipIdMismatch(chipId)
             THEN /\ busLog' = <<idRead>>
                  /\ result' = [op |-> "begin", value |-> FALSE]
                  /\ pc' = "idle"
                  /\ UNCHANGED devCopying
             ELSE /\ busLog' = <<idRead,
                                 Txn("write", BME280_REG_RESET, BME280_RESET_CMD, okReset)>>
                  /\ result' = NoResult
                  /\ pc' = "begin_poll"
                  /\ devCopying' = IF okReset THEN TRUE ELSE devCopying
    /\ UNCHANGED <<deviceAddress, calibData, t_fine, tempCompensated,
                   devChipId, devNvm>>

\* the status reads of the wait loop recorded so far
BusyPolls(log) ==
    Cardinality({i \in 1..Len(log) : log[i].reg = BME280_REG_STATUS})

\* the loop condition of begin()'s wait loop: one status read; when the
\* loop exits, the rest of begin(): readCalibrationData, the three
\* configuration writes, return true
BeginPoll ==
    /\ pc = "begin_poll"
    /\ \E okStatus \in BOOLEAN, measuring \in MeasuringStates :
         LET status == readRegister(okStatus, StatusByte(measuring))
             poll   == RxTxn("read1", BME280_REG_STATUS, okStatus, <<status>>)
         IN  IF CopyInProgress(status)
             THEN /\ busLog' = IF BusyPolls(busLog) < MaxBusyPolls
                               THEN Append(busLog, poll) ELSE busLog
                  /\ pc' = "begin_delay"
                  /\ UNCHANGED <<calibData, result>>
             ELSE \E okc \in Outcomes3, okw \in Outcomes3 :
                  /\ calibData' = readCalibrationData(okc)
                  /\ busLog' = Append(busLog, poll) \o CalibrationReads(okc)
                                  \o ConfigWrites(okw)
                  /\ result' = [op |-> "begin", value |-> TRUE]
                  /\ pc' = "idle"
    /\ UNCHANGED <<deviceAddress, t_fine, tempCompensated,
                   devChipId, devNvm, devCopying>>

\* the body of begin()'s wait loop: delay(10), then the condition again
BeginDelay ==
    /\ pc = "begin_delay"
    /\ pc' = "begin_poll"
    /\ UNCHANGED <<deviceAddress, calibData, t_fine, busLog, result,
                   tempCompensated, devChipId, devNvm, devCopying>>

\* a reset() that also clears the driver's copy of the calibration
ResetClearingCalibration ==
    /\ pc = "idle"
    /\ \E ok \in BOOLEAN :
         /\ busLog' = <<Txn("write", BME280_REG_RESET, BME280_RESET_CMD, ok)>>
         /\ devCopying' = IF ok THEN TRUE ELSE devCopying
    /\ result' = [op |-> "reset"]
    /\ calibData' = ZeroCoefficients
    /\ UNCHANGED <<deviceAddress, t_fine, pc, tempCompensated,
                   devChipId, devNvm>>

\* a reset() that also forgets the fine temperature
ResetClearingFine ==
    /\ pc = "idle"
    /\ \E ok \in BOOLEAN :
         /\ busLog' = <<Txn("write", BME280_REG_RESET, BME280_RESET_CMD, ok)>>
         /\ devCopying' = IF ok THEN TRUE ELSE devCopying
    /\ result' = [op |-> "reset"]
    /\ t_fine' = 0
    /\ UNCHANGED <<deviceAddress, calibData, pc, tempCompensated,
                   devChipId, devNvm>>

\* reset()
Reset ==
    /\ pc = "idle"
    /\ \E ok \in BOOLEAN :
         /\ busLog' = <<Txn("write", BME280_REG_RESET, BME280_RESET_CMD, ok)>>
         /\ devCopying' = IF ok THEN TRUE ELSE devCopying
    /\ result' = [op |-> "reset"]
    /\ UNCHANGED <<deviceAddress, calibData, t_fine, pc, tempCompensated,
                   devChipId, devNvm>>

\* getChipID()
GetChipID ==
    /\ pc = "idle"
    /\ \E ok \in BOOLEAN :
         /\ busLog' = <<RxTxn("read1", BME280_REG_ID, ok,
                              <<readRegister(ok, devChipId)>>)>>
         /\ result' = [op |-> "getChipID", value |-> readRegister(ok, devChipId)]
    /\ UNCHANGED <<deviceAddress, calibData, t_fine, pc, tempCompensated,
                   devChipId, devNvm, devCopying>>

\* an isMeasuring() that tests bit 0
MeasuringBitZero(status) == status % 2 = 1

\* isMeasuring(): "(status & 0x08) != 0"
MeasuringBit(status) == (status \div 8) % 2 = 1

\* isMeasuring()
IsMeasuring ==
    /\ pc = "idle"
    /\ \E ok \in BOOLEAN, measuring \in MeasuringStates :
         /\ busLog' = <<RxTxn("read1", BME280_REG_STATUS, ok,
                              <<readRegister(ok, StatusByte(measuring))>>)>>
         /\ result' = [op |-> "isMeasuring",
                       value |-> MeasuringBit(readRegister(ok, StatusByte(measuring)))]
    /\ UNCHANGED <<deviceAddress, calibData, t_fine, pc, tempCompensated,
                   devChipId, devNvm, devCopying>>

\* the body of readTemperature(): burst read, assembly, compensation
TemperaturePass(x) ==
    LET r == compensateTemperature(calibData, Adc20(x.bytes))
    IN  [t_fine |-> r.t_fine, temperature |-> r.temperature,
         txn |-> RxTxn("readN", BME280_REG_TEMP_MSB, x.ok, x.bytes)]

\* readTemperature(): returns temperature / 100.0f
ReadTemperature ==
    /\ pc = "idle"
    /\ \E x \in Transfers(RawTemperatureBytes, 3) :
         LET t == TemperaturePass(x)
         IN  /\ t_fine' = t.t_fine
             /\ busLog' = <<t.txn>>
             /\ result' = [op |-> "readTemperature", num |-> t.temperature,
                           den |-> 100, adc |-> Adc20(x.bytes),
                           firstPass |-> ~tempCompensated]
    /\ tempCompensated' = TRUE
    /\ UNCHANGED <<deviceAddress, calibData, pc,
                   devChipId, devNvm, devCopying>>

\* a readPressure() that hands out its previous value again instead of
\* reading the data registers
PressureReadCached(tf, pre, first) ==
    IF result.op = "readPressure"
    THEN /\ t_fine' = tf
         /\ busLog' = pre
         /\ result' = [result EXCEPT !.firstPass = first]
    ELSE \E x \in Transfers(RawPressureBytes, 3) :
        /\ t_fine' = tf
        /\ busLog' = Append(pre, RxTxn("readN", BME280_REG_PRESS_MSB, x.ok, x.bytes))
        /\ result' = [op |-> "readPressure",
                      num |-> compensatePressure(calibData, tf, Adc20(x.bytes)),
                      den |-> 100, adc |-> Adc20(x.bytes), firstPass |-> first]

\* what readPressure() does after the t_fine test: tf is the t_fine the
\* formula uses, pre the transactions issued before its own burst read
PressureRead(tf, pre, first) ==
    \E x \in Transfers(RawPressureBytes, 3) :
        /\ t_fine' = tf
        /\ busLog' = Append(pre, RxTxn("readN", BME280_REG_PRESS_MSB, x.ok, x.bytes))
        /\ result' = [op |-> "readPressure",
                      num |-> compensatePressure(calibData, tf, Adc20(x.bytes)),
                      den |-> 100, adc |-> Adc20(x.bytes), firstPass |-> first]

\* readPressure(): returns presComp / 100.0f; num is presComp as a word
ReadPressure ==
    /\ pc = "idle"
    /\ IF NeedsTemperature(t_fine)
       THEN \E xT \in Transfers(RawTemperatureBytes, 3) :
              LET t == TemperaturePass(xT)
              IN  /\ PressureRead(t.t_fine, <<t.txn>>, ~tempCompensated)
                  /\ tempCompensated' = TRUE
       ELSE /\ PressureRead(t_fine, <<>>, ~tempCompensated)
            /\ UNCHANGED tempCompensated
    /\ UNCHANGED <<deviceAddress, calibData, pc, devChipId, devNvm, devCopying>>

\* a humidity compensation that keeps its first intermediate in t_fine
HumidityReadClobberingFine(tf, pre, first) ==
    \E x \in Transfers(RawHumidityBytes, 2) :
        /\ t_fine' = tf - 76800
        /\ busLog' = Append(pre, RxTxn("readN", BME280_REG_HUM_MSB, x.ok, x.bytes))
        /\ result' = [op |-> "readHumidity",
                      num |-> compensateHumidity(calibData, tf, Adc16(x.bytes)),
                      den |-> 1024, adc |-> Adc16(x.bytes), firstPass |-> first]

\* what readHumidity() does after the t_fine test
HumidityRead(tf, pre, first) ==
    \E x \in Transfers(RawHumidityBytes, 2) :
        /\ t_fine' = tf
        /\ busLog' = Append(pre, RxTxn("readN", BME280_REG_HUM_MSB, x.ok, x.bytes))
        /\ result' = [op |-> "readHumidity",
                      num |-> compensateHumidity(calibData, tf, Adc16(x.bytes)),
                      den |-> 1024, adc |-> Adc16(x.bytes), firstPass |-> first]

\* readHumidity(): returns humComp / 1024.0f
ReadHumidity ==
    /\ pc = "idle"
    /\ IF NeedsTemperature(t_fine)
       THEN \E xT \in Transfers(RawTemperatureBytes, 3) :
              LET t == TemperaturePass(xT)
              IN  /\ HumidityRead(t.t_fine, <<t.txn>>, ~tempCompensated)
                  /\ tempCompensated' = TRUE
       ELSE /\ HumidityRead(t_fine, <<>>, ~tempCompensated)
            /\ UNCHANGED tempCompensated
    /\ UNCHANGED <<deviceAddress, calibData, pc, devChipId, devNvm, devCopying>>

\* the device finishes copying its calibration image
DeviceCopyDone ==
    /\ devCopying
    /\ devCopying' = FALSE
    /\ UNCHANGED <<deviceAddress, calibData, t_fine, pc, busLog, result,
                   tempCompensated, devChipId, devNvm>>

\* the driver on its own: any public call in any order, the application
\* at rest
Next ==
    \/ Begin /\ UNCHANGED appVars
    \/ BeginPoll /\ UNCHANGED appVars
    \/ BeginDelay /\ UNCHANGED appVars
    \/ Reset /\ UNCHANGED appVars
    \/ GetChipID /\ UNCHANGED appVars
    \/ IsMeasuring /\ UNCHANGED appVars
    \/ ReadTemperature /\ UNCHANGED appVars
    \/ ReadPressure /\ UNCHANGED appVars
    \/ ReadHumidity /\ UNCHANGED appVars
    \/ DeviceCopyDone /\ UNCHANGED appVars

Spec == Init /\ [][Next]_vars

\* begin() is a blocking call: once inside the wait loop the processor
\* keeps executing it
FairSpec ==
    /\ Spec
    /\ WF_vars(BeginPoll /\ UNCHANGED appVars)
    /\ WF_vars(BeginDelay /\ UNCHANGED appVars)

(***************************************************************************)
(* readCalibrationData on arbitrary register contents.                     *)
(***************************************************************************)
\* byte values at the edges of the signed and unsigned ranges
EdgeBytes == {0, 127, 128, 255}

\* byte values at the edges of the two nibbles
NibbleBytes == {0, 15, 240, 255}

\* seeds of register images whose bytes all differ
MaxImageSeed == 3

\* contents of the calibration registers: tp is 0x88..0x9F, h1 is 0xA1 and
\* h is 0xE1..0xE7.  Either every 16-bit register holds the same pair of
\* edge bytes and 0xE4..0xE6 hold nibble edges, or all bytes differ
CalibrationImages ==
    {[tp |-> [i \in 1..24 |-> IF i % 2 = 1 THEN lo ELSE hi],
      h1 |-> lo,
      h  |-> <<lo, hi, lo, e4, e5, e6, hi>>] :
        lo \in EdgeBytes, hi \in EdgeBytes,
        e4 \in NibbleBytes, e5 \in NibbleBytes, e6 \in NibbleBytes}
    \cup
    {[tp |-> [i \in 1..24 |-> (37 * i + 11 * k) % 256],
      h1 |-> (67 * k + 5) % 256,
      h  |-> [i \in 1..7 |-> (53 * i + 29 * k + 128) % 256]] :
        k \in 0..MaxImageSeed}

DecodeInit ==
    /\ deviceAddress = BME280_ADDRESS_PRIMARY
    /\ devChipId = BME280_CHIP_ID
    /\ devNvm = "reference"
    /\ calibData = ZeroCoefficients
    /\ t_fine = 0
    /\ pc = "idle"
    /\ busLog = <<>>
    /\ result = NoResult
    /\ tempCompensated = FALSE
    /\ devCopying = FALSE
    /\ AppGlobals

\* readCalibrationData() on a device whose registers hold image m
LoadCalibration ==
    /\ \E m \in CalibrationImages :
         /\ calibData' = DecodeCalibration(m.tp, m.h1, m.h)
         /\ busLog' = <<RxTxn("readN", BME280_REG_DIG_T1, TRUE, m.tp),
                        RxTxn("read1", BME280_REG_DIG_H1, TRUE, <<m.h1>>),
                        RxTxn("readN", BME280_REG_DIG_H2, TRUE, m.h)>>
    /\ result' = [op |-> "readCalibrationData"]
    /\ UNCHANGED <<deviceAddress, t_fine, pc, tempCompensated,
                   devChipId, devNvm, devCopying>>
    /\ UNCHANGED appVars

DecodeSpec == DecodeInit /\ [][LoadCalibration]_vars

(***************************************************************************)
(* The application: setup() and loop() of main.cpp.                        *)
(***************************************************************************)
\* "const unsigned long updateInterval = 2000"
updateInterval == 2000

\* milliseconds "currentTime - lastUpdateTime" may show when loop() looks
Elapsed == {updateInterval - 1, updateInterval}

\* the command strings of handleMQTTCallback as bytes: "RESET", "LED_ON",
\* "LED_OFF"
CmdReset  == <<82, 69, 83, 69, 84>>
CmdLedOn  == <<76, 69, 68, 95, 79, 78>>
CmdLedOff == <<76, 69, 68, 95, 79, 70, 70>>

\* payloads a publisher may send to the command topic: the commands, the
\* empty payload, "led_on", "LED", "LED_ON\n", and commands followed by a
\* zero byte and more bytes
Payloads ==
    {CmdReset, CmdLedOn, CmdLedOff, <<>>,
     <<108, 101, 100, 95, 111, 110>>, <<76, 69, 68>>,
     CmdLedOn \o <<10>>, CmdLedOn \o <<0, 120>>, CmdLedOff \o <<0>>}

\* the string strcmp() sees in "char message[length + 1]" after the memcpy
\* and the terminator: the bytes before the first zero byte
CString(payload) ==
    LET zeros == {i \in 1..Len(payload) : payload[i] = 0}
    IN  IF zeros = {} THEN payload
        ELSE SubSeq(payload, 1, (CHOOSE i \in zeros : \A j \in zeros : i <= j) - 1)

\* "strcmp(message, literal) == 0"
StrEq(payload, literal) == CString(payload) = literal

\* what mqttClient.connected() may answer: a link that is up may have
\* dropped, a link that is down stays down until reconnectMQTT()
Connected == IF mqttConnected THEN BOOLEAN ELSE {FALSE}

\* the float a driver call returned
Reading(r) == [num |-> r.num, den |-> r.den]

\* setup() up to setupBME280(): the LED pin is driven low, the display
\* is initialised
AppSetup ==
    /\ appFn = "setup" /\ appPc = "start"
    /\ ledPin' = "LOW"
    /\ appPc' = "setupBME280"
    /\ UNCHANGED <<appFn, beginResult, sensorData, ledState, displayCleared,
                   mqttConnected, inbox, published>>
    /\ UNCHANGED <<deviceAddress, calibData, t_fine, pc, busLog, result,
                   tempCompensated, devChipId, devNvm, devCopying>>

\* setupBME280(): bme280.begin(), whose result is only displayed; then
\* setupWiFi() and setupMQTT(), and setup() goes on to readSensorData()
SetupBME280 ==
    /\ appPc = "setupBME280"
    /\ Begin \/ BeginPoll \/ BeginDelay
    /\ IF pc' = "idle"
       THEN /\ beginResult' = result'.value
            /\ appPc' = "readTemperature"
       ELSE UNCHANGED <<beginResult, appPc>>
    /\ UNCHANGED <<appFn, sensorData, ledState, ledPin, displayCleared,
                   mqttConnected, inbox, published>>

\* readSensorData(): "sensorData.temperature = bme280.readTemperature()"
ReadSensorTemperature ==
    /\ appPc = "readTemperature"
    /\ ReadTemperature
    /\ sensorData' = [sensorData EXCEPT !.temperature = Reading(result')]
    /\ appPc' = "readHumidity"
    /\ UNCHANGED <<appFn, beginResult, ledState, ledPin, displayCleared,
                   mqttConnected, inbox, published>>

\* readSensorData(): "sensorData.humidity = bme280.readHumidity()"
ReadSensorHumidity ==
    /\ appPc = "readHumidity"
    /\ ReadHumidity
    /\ sensorData' = [sensorData EXCEPT !.humidity = Reading(result')]
    /\ appPc' = "readPressure"
    /\ UNCHANGED <<appFn, beginResult, ledState, ledPin, displayCleared,
                   mqttConnected, inbox, published>>

\* readSensorData(): "sensorData.pressure = bme280.readPressure()", then
\* updateDisplay(); setup() returns and loop() starts, loop() goes on to
\* publishSensorData()
ReadSensorPressure ==
    /\ appPc = "readPressure"
    /\ ReadPressure
    /\ sensorData' = [sensorData EXCEPT !.pressure = Reading(result')]
    /\ appFn' = "loop"
    /\ appPc' = IF appFn = "setup" THEN "start" ELSE "publish"
    /\ UNCHANGED <<beginResult, ledState, ledPin, displayCleared,
                   mqttConnected, inbox, published>>

\* loop() up to the timer: reconnectMQTT() when the link is down, which
\* needs WiFi and a broker that accepts; then mqttClient.loop(), which
\* hands one received message, if any, to the callback
LoopStart ==
    /\ appFn = "loop" /\ appPc = "start"
    /\ \E c \in Connected, wifi \in BOOLEAN, accepted \in BOOLEAN :
         LET up == c \/ (wifi /\ accepted)
         IN  /\ mqttConnected' = up
             /\ \E p \in (IF up THEN Payloads ELSE {}) \cup {NoMessage} :
                  /\ inbox' = p
                  /\ appPc' = IF p = NoMessage THEN "timer" ELSE "callback"
    /\ published' = <<>>
    /\ UNCHANGED <<appFn, beginResult, sensorData, ledState, ledPin,
                   displayCleared>>
    /\ UNCHANGED <<deviceAddress, calibData, t_fine, pc, busLog, result,
                   tempCompensated, devChipId, devNvm, devCopying>>

\* handleMQTTCallback(topic, payload, length)
HandleMQTTCallback ==
    /\ appPc = "callback"
    /\ IF StrEq(inbox, CmdReset)
       THEN /\ displayCleared' = TRUE
            /\ UNCHANGED <<ledState, ledPin>>
       ELSE IF StrEq(inbox, CmdLedOn)
       THEN /\ ledPin' = "HIGH"
            /\ ledState' = TRUE
            /\ UNCHANGED displayCleared
       ELSE IF StrEq(inbox, CmdLedOff)
       THEN /\ ledPin' = "LOW"
            /\ ledState' = FALSE
            /\ UNCHANGED displayCleared
       ELSE UNCHANGED <<ledState, ledPin, displayCleared>>
    /\ inbox' = NoMessage
    /\ appPc' = "timer"
    /\ UNCHANGED <<appFn, beginResult, sensorData, mqttConnected, published>>
    /\ UNCHANGED <<deviceAddress, calibData, t_fine, pc, busLog, result,
                   tempCompensated, devChipId, devNvm, devCopying>>

\* loop(): "if (currentTime - lastUpdateTime >= updateInterval)"
LoopTimer ==
    /\ appPc = "timer"
    /\ \E elapsed \in Elapsed :
         appPc' = IF elapsed >= updateInterval THEN "readTemperature"
                  ELSE "start"
    /\ UNCHANGED <<appFn, beginResult, sensorData, ledState, ledPin,
                   displayCleared, mqttConnected, inbox, published>>
    /\ UNCHANGED <<deviceAddress, calibData, t_fine, pc, busLog, result,
                   tempCompensated, devChipId, devNvm, devCopying>>

\* publishSensorData(): the message is the JSON text of the three floats
\* of sensorData
PublishSensorData ==
    /\ appPc = "publish"
    /\ \E c \in Connected :
         /\ mqttConnected' = c
         /\ published' = IF ~c THEN <<>>
                         ELSE <<[topic |-> "sensor/bme280/data",
                                 data |-> sensorData]>>
    /\ appPc' = "start"
    /\ UNCHANGED <<appFn, beginResult, sensorData, ledState, ledPin,
                   displayCleared, inbox>>
    /\ UNCHANGED <<deviceAddress, calibData, t_fine, pc, busLog, result,
                   tempCompensated, devChipId, devNvm, devCopying>>

\* "BME280_Driver bme280;" at file scope: static storage, the primary
\* address; the device on the bus answers with either identity byte
AppInit ==
    /\ deviceAddress = BME280_ADDRESS_PRIMARY
    /\ devChipId \in {s.chipId : s \in Setups}
    /\ devNvm = "reference"
    /\ calibData = ZeroCoefficients
    /\ t_fine = 0
    /\ pc = "idle"
    /\ busLog = <<>>
    /\ result = NoResult
    /\ tempCompensated = FALSE
    /\ devCopying = FALSE
    /\ AppGlobals

AppNext ==
    \/ AppSetup
    \/ SetupBME280
    \/ ReadSensorTemperature
    \/ ReadSensorHumidity
    \/ ReadSensorPressure
    \/ LoopStart
    \/ HandleMQTTCallback
    \/ LoopTimer
    \/ PublishSensorData
    \/ DeviceCopyDone /\ UNCHANGED appVars

AppSpec == AppInit /\ [][AppNext]_vars

(***************************************************************************)
(* Properties.                                                             *)
(***************************************************************************)
IsWrite(t) == t.kind = "write"

\* the register writes of a call, in the order issued
Writes(log) == SelectSeq(log, IsWrite)

RegsOf(log) == [i \in 1..Len(log) |-> log[i].reg]

ReadOps == {"readTemperature", "readPressure", "readHumidity"}

\* a step of Begin: begin() called on an idle driver
BeginStep == pc = "idle" /\ (pc' = "begin_poll" \/ result'.op = "begin")
                         /\ <<busLog, result, pc>> # <<busLog', result', pc'>>

\* C1: when the identity read of begin() returns anything but 0x60, begin()
\* returns false, issues no register write and leaves calibData and t_fine
\* as they were.
C1_IdMismatchStep ==
    (BeginStep /\ readRegister(busLog'[1].ok, devChipId) # BME280_CHIP_ID)
        => /\ pc' = "idle"
           /\ result' = [op |-> "begin", value |-> FALSE]
           /\ Writes(busLog') = <<>>
           /\ calibData' = calibData
           /\ t_fine' = t_fine

C1_IdMismatch == [][C1_IdMismatchStep]_vars

\* begin() returned false from a device that answers 0x58
C1_Witness ==
    /\ result = [op |-> "begin", value |-> FALSE]
    /\ devChipId = 88
    /\ busLog = <<RxTxn("read1", BME280_REG_ID, TRUE, <<88>>)>>

\* C2: whenever begin() has returned true, its register writes were, in this
\* order, the soft reset 0xB6 to 0xE0, then 0xF2, then 0xF4, then 0xF5.
C2_WriteOrder ==
    (pc = "idle" /\ result = [op |-> "begin", value |-> TRUE])
        => /\ RegsOf(Writes(busLog)) = <<BME280_REG_RESET, BME280_REG_CTRL_HUM,
                                         BME280_REG_CTRL_MEAS, BME280_REG_CONFIG>>
           /\ Writes(busLog)[1].arg = BME280_RESET_CMD

\* begin() returned true after at least one busy poll of the status register
C2_Witness ==
    /\ pc = "idle"
    /\ result = [op |-> "begin", value |-> TRUE]
    /\ BusyPolls(busLog) >= 2
    /\ busLog[3].data = <<1>>

\* C3: begin() always terminates: once in the calibration-copy wait it
\* eventually returns, whatever the device does.
C3_BeginTerminates == (pc \in {"begin_poll", "begin_delay"}) ~> (pc = "idle")

\* C4: a readPressure() or readHumidity() made when no temperature
\* compensation has run yet first issues the 3-byte burst read at 0xFA and
\* runs compensateTemperature, then issues its own burst read.
C4_ImplicitTemperature ==
    (result.op \in {"readPressure", "readHumidity"} /\ result.firstPass)
        => /\ tempCompensated
           /\ Len(busLog) = 2
           /\ busLog[1].kind = "readN"
           /\ busLog[1].reg = BME280_REG_TEMP_MSB
           /\ busLog[1].arg = 3
           /\ busLog[2].kind = "readN"
           /\ busLog[2].reg = (IF result.op = "readPressure"
                               THEN BME280_REG_PRESS_MSB ELSE BME280_REG_HUM_MSB)

\* readPressure() was the first read on the driver
C4_Witness ==
    /\ result.op = "readPressure"
    /\ result.firstPass
    /\ tempCompensated

\* C5: with the reference coefficients, t_fine = 128422 and raw pressure
\* 415148, the integer readPressure() divides by 100 is the pressure in
\* Pascal, 100653 within 1.
C5_PressureInPascal ==
    (/\ result.op = "readPressure"
     /\ calibData = ReferenceCoefficients
     /\ t_fine = 128422
     /\ result.adc = 415148)
        => result.num \in {I64(100652), I64(100653), I64(100654)}

\* C6: whenever the P1-derived divisor is zero, readPressure() returns 0.
C6_ZeroDivisorGivesZero ==
    (result.op = "readPressure"
        /\ PressureDivisor(calibData, t_fine) = I64(0))
        => result.num = I64(0)

\* readPressure() returned 0 on a device whose dig_P1 is 0 and whose other
\* coefficients are not
C6_Witness ==
    /\ result.op = "readPressure"
    /\ calibData.dig_P1 = 0
    /\ calibData.dig_P7 # 0
    /\ result.num = I64(0)

\* C7: the value compensateHumidity returns lies in 0..102400, so that
\* readHumidity() returns a value in [0.0, 100.0].
C7_HumidityRange ==
    result.op = "readHumidity"
        => (result.den = 1024 /\ result.num >= 0 /\ result.num <= 102400)

\* the formula overshot and the result was clamped to 100 percent
C7_Witness ==
    /\ result.op = "readHumidity"
    /\ HumidityUnclamped(calibData, t_fine, result.adc) > 419430400
    /\ result.num = 102400

\* C8: with T1 = 27504, T2 = 26435, T3 = -1000 and raw temperature 519888,
\* compensateTemperature sets t_fine to 128422 and returns 2508.
C8_TemperatureGolden ==
    (/\ result.op = "readTemperature"
     /\ calibData.dig_T1 = 27504
     /\ calibData.dig_T2 = 26435
     /\ calibData.dig_T3 = -1000
     /\ result.adc = 519888)
        => (t_fine = 128422 /\ result.num = 2508 /\ result.den = 100)

\* readTemperature() ran on the golden vector
C8_Witness ==
    /\ result.op = "readTemperature"
    /\ calibData = ReferenceCoefficients
    /\ result.adc = 519888
    /\ result.num = 2508

\* some transaction of the call failed
SomeTransferFailed(log) == \E i \in 1..Len(log) : ~log[i].ok

\* the last call reported a failure: the only failure value of the API is
\* begin()'s false
ReportedFailure(r) == r.op = "begin" /\ r.value = FALSE

\* no failed transaction is issued again right after it failed
NoRetry(log) ==
    \A i \in 1..(Len(log) - 1) : ~log[i].ok => log[i+1] # log[i]

\* C9: a call of begin() or of a read during which a bus transaction failed
\* reports a failure to its caller, and the failed transaction is issued
\* once.
C9_BusFailureReported ==
    (/\ pc = "idle"
     /\ result.op \in ReadOps \cup {"begin"}
     /\ SomeTransferFailed(busLog))
        => (ReportedFailure(result) /\ NoRetry(busLog))

\* C10: when begin() has returned true, the soft reset, the three
\* calibration reads and the three configuration writes have been issued;
\* when it has returned false, no register write has been issued.
C10_AllOrNothing ==
    (pc = "idle" /\ result.op = "begin")
        => IF result.value
           THEN /\ \A r \in {BME280_REG_RESET, BME280_REG_CTRL_HUM,
                             BME280_REG_CTRL_MEAS, BME280_REG_CONFIG} :
                      \E i \in 1..Len(busLog) : IsWrite(busLog[i]) /\ busLog[i].reg = r
                /\ \A r \in {BME280_REG_DIG_T1, BME280_REG_DIG_H1, BME280_REG_DIG_H2} :
                      \E i \in 1..Len(busLog) : ~IsWrite(busLog[i]) /\ busLog[i].reg = r
           ELSE Writes(busLog) = <<>>

\* begin() returned true although the bus failed on its configuration writes
C10_Witness ==
    /\ pc = "idle"
    /\ result = [op |-> "begin", value |-> TRUE]
    /\ Len(Writes(busLog)) = 4
    /\ ~Writes(busLog)[4].ok

\* a public call other than begin() was made and returned
QueryOps == {"readTemperature", "readPressure", "readHumidity",
             "isMeasuring", "getChipID", "reset"}

CallStep(ops) ==
    /\ pc = "idle"
    /\ pc' = "idle"
    /\ result'.op \in ops
    /\ <<busLog, result, t_fine, calibData>> # <<busLog', result', t_fine', calibData'>>

\* C11: no readTemperature(), readPressure(), readHumidity(),
\* isMeasuring(), getChipID() or reset() call changes a field of calibData;
\* only a begin() that gets past its wait loop writes it.
C11_CalibrationFrame ==
    [][/\ CallStep(QueryOps) => calibData' = calibData
       /\ calibData' # calibData
             => (pc = "begin_poll" /\ result'.op = "begin" /\ result'.value)]_vars

\* a pressure read made on the calibration that begin() loaded
C11_Witness ==
    /\ result.op = "readPressure"
    /\ calibData = ReferenceCoefficients
    /\ ~result.firstPass

\* var1 + var2 of the temperature formula in unbounded integers.  The
\* products stay below 2^31 for the coefficients and samples considered,
\* except the square when dig_T1 is 0: var2 is then 0 because dig_T3 is
FineOf(c, adcTemp) ==
    ((((adcTemp \div 8) - 2 * c.dig_T1) * c.dig_T2) \div 2048)
      + (IF c.dig_T3 = 0 THEN 0
         ELSE (((((adcTemp \div 16) - c.dig_T1) * ((adcTemp \div 16) - c.dig_T1))
                   \div 4096) * c.dig_T3) \div 16384)

\* the burst reads of the temperature registers in a call's transactions
TemperatureReads(log) ==
    {i \in 1..Len(log) : log[i].kind = "readN" /\ log[i].reg = BME280_REG_TEMP_MSB}

\* C12: t_fine changes only in a call that reads the temperature registers
\* and then holds var1 + var2 of that sample (so begin(), reset(),
\* getChipID(), isMeasuring() and the pressure and humidity compensations
\* leave it as it was), and every readTemperature() call sets it to
\* var1 + var2 of the sample it has just read.
C12_FineFrame ==
    [][/\ t_fine' # t_fine
            => /\ pc = "idle"
               /\ result'.op \in ReadOps
               /\ TemperatureReads(busLog') = {1}
               /\ t_fine' = FineOf(calibData, Adc20(busLog'[1].data))
       /\ CallStep({"readTemperature"})
            => t_fine' = FineOf(calibData, Adc20(busLog'[1].data))
       /\ (CallStep({"readPressure", "readHumidity"})
              /\ TemperatureReads(busLog') = {})
            => t_fine' = t_fine]_vars

\* readTemperature() replaced a t_fine that an earlier sample had produced,
\* and a humidity read has since left it alone
C12_Witness ==
    /\ result.op = "readHumidity"
    /\ ~result.firstPass
    /\ calibData = ReferenceCoefficients
    /\ t_fine = 128422
    /\ Len(busLog) = 1

\* the last transaction of a call is a burst read of n bytes at reg
EndsWithBurst(log, reg, n) ==
    /\ Len(log) >= 1
    /\ log[Len(log)].kind = "readN"
    /\ log[Len(log)].reg = reg
    /\ log[Len(log)].arg = n
    /\ Len(log[Len(log)].data) = n

\* C13: every readTemperature() issues a 3-byte burst read at 0xFA, every
\* readPressure() a 3-byte burst read at 0xF7 and every readHumidity() a
\* 2-byte burst read at 0xFD; the sample the call converts is assembled
\* from the bytes of that read, and two consecutive calls of the same
\* operation with the same sample, calibData and t_fine return the same
\* value whatever was read before.
C13_FreshSamples ==
    [][/\ CallStep({"readTemperature"})
            => /\ Len(busLog') = 1
               /\ EndsWithBurst(busLog', BME280_REG_TEMP_MSB, 3)
               /\ result'.adc = Adc20(busLog'[1].data)
       /\ CallStep({"readPressure"})
            => /\ EndsWithBurst(busLog', BME280_REG_PRESS_MSB, 3)
               /\ result'.adc = Adc20(busLog'[Len(busLog')].data)
       /\ CallStep({"readHumidity"})
            => /\ EndsWithBurst(busLog', BME280_REG_HUM_MSB, 2)
               /\ result'.adc = Adc16(busLog'[Len(busLog')].data)
       /\ (/\ CallStep(ReadOps)
           /\ result.op = result'.op
           /\ result.adc = result'.adc
           /\ calibData' = calibData
           /\ t_fine' = t_fine)
            => result'.num = result.num]_vars

\* a pressure read that followed reads of other samples and needed no
\* temperature pass
C13_Witness ==
    /\ result.op = "readPressure"
    /\ ~result.firstPass
    /\ Len(busLog) = 1
    /\ result.adc = 415148
    /\ t_fine = 128422

\* C14: isMeasuring() can be called in any state in which no call is in
\* progress, also before begin(); it issues exactly one transaction, a
\* single-byte read of the status register 0xF3, writes no register, leaves
\* calibData and t_fine as they were, and returns true exactly when bit 3
\* of the byte it read is set.
C14_IsMeasuringPure ==
    /\ [](pc = "idle" => ENABLED IsMeasuring)
    /\ [][CallStep({"isMeasuring"})
            => /\ Len(busLog') = 1
               /\ busLog'[1].kind = "read1"
               /\ busLog'[1].reg = 243
               /\ busLog'[1].arg = 1
               /\ Writes(busLog') = <<>>
               /\ calibData' = calibData
               /\ t_fine' = t_fine
               /\ tempCompensated' = tempCompensated
               /\ result'.value = (busLog'[1].data[1] % 16 >= 8)]_vars

\* isMeasuring() answered false while the device was copying its
\* calibration image (status 0x01), on a driver that never ran begin()
C14_Witness ==
    /\ result = [op |-> "isMeasuring", value |-> FALSE]
    /\ busLog[1].data = <<1>>
    /\ calibData = ZeroCoefficients

\* the values of the register writes of a call, in the order issued
ValuesOf(log) == [i \in 1..Len(log) |-> log[i].arg]

\* C15: the measurement-control byte begin() writes to 0xF4 is 0x27: its
\* bits 7-5 are the temperature oversampling, bits 4-2 the pressure
\* oversampling and bits 1-0 the power mode; the write to 0xF2 before it
\* carries the humidity oversampling 0x01 and the write to 0xF5 after it
\* carries 0x00.
C15_ControlBytes ==
    (pc = "idle" /\ result = [op |-> "begin", value |-> TRUE])
        => /\ Len(Writes(busLog)) = 4
           /\ RegsOf(Writes(busLog)) = <<224, 242, 244, 245>>
           /\ ValuesOf(Writes(busLog)) = <<182, 1, 39, 0>>
           /\ (Writes(busLog)[3].arg \div 32) % 8 = BME280_TEMP_OSR
           /\ (Writes(busLog)[3].arg \div 4) % 8 = BME280_PRES_OSR
           /\ Writes(busLog)[3].arg % 4 = BME280_MODE
           /\ Writes(busLog)[3].arg \in 0..255
           /\ Writes(busLog)[2].arg = BME280_HUM_OSR

\* begin() returned true on the device at the secondary address
C15_Witness ==
    /\ pc = "idle"
    /\ result = [op |-> "begin", value |-> TRUE]
    /\ deviceAddress = 119
    /\ calibData = Coefficients("p1zero")

\* the three shapes of a transaction
WellShaped(t) ==
    \/ t.kind = "read1" /\ t.arg = 1 /\ Len(t.data) = 1
    \/ t.kind = "readN" /\ t.arg >= 1 /\ Len(t.data) = t.arg
    \/ t.kind = "write" /\ t.arg \in 0..255 /\ t.data = <<>>

\* C16: the device address of the driver never changes, and every
\* transaction of every call is addressed to it and is a read of one byte
\* from a register, a read of N consecutive bytes from a register or a
\* write of one byte to a register.
C16_BusShapes ==
    /\ [](\A i \in 1..Len(busLog) :
            /\ busLog[i].addr = deviceAddress
            /\ busLog[i].reg \in 0..255
            /\ WellShaped(busLog[i]))
    /\ [][deviceAddress' = deviceAddress]_vars

\* a driver constructed with the secondary address has completed a
\* begin(): reads of one byte, burst reads and writes were all issued
C16_Witness ==
    /\ deviceAddress = 119
    /\ result = [op |-> "begin", value |-> TRUE]
    /\ {busLog[i].kind : i \in 1..Len(busLog)} = {"read1", "readN", "write"}

\* C17: reset() issues exactly one transaction, the write of 0xB6 to 0xE0,
\* and leaves calibData and t_fine as they were; when it has returned the
\* driver is ready for the next call, and a read made while the device is
\* still in the power-on copy the reset started (so before any begin() can
\* have completed) issues its burst read and returns a value as usual.
C17_ResetFrame ==
    /\ [][CallStep({"reset"})
            => /\ Len(busLog') = 1
               /\ busLog'[1].kind = "write"
               /\ busLog'[1].reg = 224
               /\ busLog'[1].arg = 182
               /\ calibData' = calibData
               /\ t_fine' = t_fine
               /\ tempCompensated' = tempCompensated]_vars
    /\ [](result.op = "reset" => pc = "idle")
    /\ [](result.op \in ReadOps
            => /\ Len(busLog) >= 1
               /\ busLog[Len(busLog)].kind = "readN"
               /\ result.den \in {100, 1024})

\* a pressure read returned a value while the device was still copying
\* its calibration image after a reset(), on a driver that holds a
\* calibration and a fine temperature from before the reset
C17_Witness ==
    /\ result.op = "readPressure"
    /\ devCopying
    /\ calibData = ReferenceCoefficients
    /\ t_fine = 128422
    /\ Len(busLog) = 1

\* the positions of the reads of the calibration registers in a call
CalibrationPositions(log) ==
    {i \in 1..Len(log) : log[i].kind # "write" /\ log[i].reg \in {136, 161, 225}}

\* C18: in a begin() that returns true the calibration registers are read
\* exactly once, as a 24-byte burst read at 0x88, a single-byte read at
\* 0xA1 and a 7-byte burst read at 0xE1 in this order; the transaction
\* right before them is a status read whose byte has bit 0 clear, every
\* status read before that one had bit 0 set, and the three configuration
\* writes come right after them.
C18_CalibrationAfterCopy ==
    (pc = "idle" /\ result = [op |-> "begin", value |-> TRUE])
        => LET n == Len(busLog)
           IN  /\ n >= 9
               /\ CalibrationPositions(busLog) = {n - 5, n - 4, n - 3}
               /\ busLog[n-5].kind = "readN" /\ busLog[n-5].reg = 136
                                             /\ busLog[n-5].arg = 24
               /\ busLog[n-4].kind = "read1" /\ busLog[n-4].reg = 161
               /\ busLog[n-3].kind = "readN" /\ busLog[n-3].reg = 225
                                             /\ busLog[n-3].arg = 7
               /\ busLog[n-6].kind = "read1" /\ busLog[n-6].reg = 243
                                             /\ busLog[n-6].data[1] % 2 = 0
               /\ \A i \in 3..(n - 7) :
                     /\ busLog[i].reg = 243
                     /\ busLog[i].data[1] % 2 = 1
               /\ \A i \in (n - 2)..n : busLog[i].kind = "write"

\* begin() loaded the calibration after a status read that found the copy
\* in progress and one that found it finished
C18_Witness ==
    /\ pc = "idle"
    /\ result = [op |-> "begin", value |-> TRUE]
    /\ Len(busLog) = 10
    /\ busLog[3].data = <<1>>
    /\ busLog[4].data[1] % 2 = 0
    /\ calibData = ReferenceCoefficients

\* the unsigned and the two's-complement value of two bytes, least
\* significant first
U16(lo, hi) == lo + 256 * hi
S16(lo, hi) == IF hi >= 128 THEN lo + 256 * hi - 65536 ELSE lo + 256 * hi

\* C19: whatever the calibration registers hold, readCalibrationData
\* stores T1 and P1 as the unsigned and T2, T3, P2..P9 and H2 as the signed
\* little-endian value of their two bytes, H1 and H3 as their byte, H6 as
\* the sign-extended byte 0xE7, H4 as (0xE4 << 4) | (0xE5 & 0x0F) and H5 as
\* (0xE6 << 4) | (0xE5 >> 4).
C19_Decode ==
    result.op = "readCalibrationData"
        => LET tp == busLog[1].data
               h  == busLog[3].data
           IN  /\ calibData.dig_T1 = U16(tp[1], tp[2])
               /\ calibData.dig_T2 = S16(tp[3], tp[4])
               /\ calibData.dig_T3 = S16(tp[5], tp[6])
               /\ calibData.dig_P1 = U16(tp[7], tp[8])
               /\ calibData.dig_P2 = S16(tp[9], tp[10])
               /\ calibData.dig_P3 = S16(tp[11], tp[12])
               /\ calibData.dig_P4 = S16(tp[13], tp[14])
               /\ calibData.dig_P5 = S16(tp[15], tp[16])
               /\ calibData.dig_P6 = S16(tp[17], tp[18])
               /\ calibData.dig_P7 = S16(tp[19], tp[20])
               /\ calibData.dig_P8 = S16(tp[21], tp[22])
               /\ calibData.dig_P9 = S16(tp[23], tp[24])
               /\ calibData.dig_H1 = busLog[2].data[1]
               /\ calibData.dig_H2 = S16(h[1], h[2])
               /\ calibData.dig_H3 = h[3]
               /\ calibData.dig_H4 = h[4] * 16 + (h[5] % 16)
               /\ calibData.dig_H5 = h[6] * 16 + (h[5] \div 16)
               /\ calibData.dig_H6 = (IF h[7] >= 128 THEN h[7] - 256 ELSE h[7])
               /\ {calibData.dig_T1, calibData.dig_P1} \subseteq 0..65535
               /\ {calibData.dig_T2, calibData.dig_T3, calibData.dig_P2,
                    calibData.dig_P3, calibData.dig_P4, calibData.dig_P5,
                    calibData.dig_P6, calibData.dig_P7, calibData.dig_P8,
                    calibData.dig_P9, calibData.dig_H2} \subseteq -32768..32767
               /\ calibData.dig_H6 \in -128..127

\* registers 0x80 0xFF in every 16-bit pair and 0xFF in 0xE4..0xE7 were
\* decoded
C19_Witness ==
    /\ result.op = "readCalibrationData"
    /\ calibData.dig_T1 = 65408
    /\ calibData.dig_T2 = -128
    /\ calibData.dig_H6 = -1
    /\ busLog[3].data[4] = 255

\* C20: when the most significant byte of dig_H4 (register 0xE4) has its
\* top bit set, the 12-bit two's-complement encoding of a negative value,
\* readCalibrationData stores a negative dig_H4; likewise for dig_H5 and
\* register 0xE6.
C20_SignedH4H5 ==
    result.op = "readCalibrationData"
        => /\ busLog[3].data[4] >= 128 => calibData.dig_H4 < 0
           /\ busLog[3].data[6] >= 128 => calibData.dig_H5 < 0

\* C21: once a temperature compensation has run, whatever t_fine it
\* produced, a readPressure() or readHumidity() issues exactly one burst
\* read, of its own data registers, and none of the temperature registers.
C21_TemperatureOnlyOnce ==
    (result.op \in {"readPressure", "readHumidity"} /\ ~result.firstPass)
        => /\ Len(busLog) = 1
           /\ TemperatureReads(busLog) = {}

\* the driver calls of a readSensorData() cycle come in the order
\* temperature, humidity, pressure, and the fine temperature the humidity
\* call finds is the one this cycle's temperature read computed
SensorCycleOrder ==
    /\ appPc = "readHumidity"
          => /\ result.op = "readTemperature"
             /\ t_fine = FineOf(calibData, result.adc)
    /\ appPc = "readPressure" => result.op = "readHumidity"
    /\ appPc = "publish" => result.op = "readPressure"

\* C22: the application takes and publishes sensor readings only when
\* bme280.begin() has returned true, and each readSensorData() cycle reads
\* the temperature before the humidity and the pressure.
C22_ReadsOnlyAfterBegin ==
    /\ result.op \in ReadOps => beginResult = TRUE
    /\ published # <<>> => beginResult = TRUE
    /\ SensorCycleOrder

\* the callback ran on the payload in inbox and returned
CallbackStep == appPc = "callback" /\ appPc' = "timer"

\* C23: a delivered LED_ON message sets ledState, a delivered LED_OFF
\* message clears it, and every other payload, RESET included, leaves it
\* as it was; the LED pin shows ledState once setup() has driven it; and
\* publishSensorData() publishes only over a connected client.
C23_LedFollowsCommands ==
    /\ [][CallbackStep =>
             ledState' = IF inbox = CmdLedOn THEN TRUE
                         ELSE IF inbox = CmdLedOff THEN FALSE
                         ELSE ledState]_vars
    /\ [](ledPin # "floating" => ledPin = IF ledState THEN "HIGH" ELSE "LOW")
    /\ [](published # <<>> => mqttConnected)
====
